---- MODULE Spec2Model ----
(***************************************************************************)
(* The training driver of src/train.py as a state machine.                 *)
(*                                                                         *)
(* main() is one sequential procedure; pc is its position.  The numeric    *)
(* kernels (the network, the loss, the optimizer) are abstracted:          *)
(*   - the trainable parameters are a function from parameter-group name   *)
(*     to a version: the number of the training step of this run that      *)
(*     last passed over the group (0 for the initial values, -1 for values *)
(*     stored by an earlier run).  Two versions may stand for equal        *)
(*     tensors (a step the gradient scaler skips changes no value); equal  *)
(*     versions always stand for equal tensors;                            *)
(*   - the MSE of a validation batch is an input, 0 or 1/10^k, and the     *)
(*     PSNR transform is computed on it with IEEE-754 semantics for the    *)
(*     division by zero (1/0.0 = +inf, log10(+inf) = +inf);                *)
(*   - floating-point values are exact rationals extended with +inf.       *)
(*     NaN is not modelled: the MSE inputs are numbers.                    *)
(***************************************************************************)
EXTENDS Integers, Sequences, FiniteSets, TLC

(* ---------------------------- bounds ----------------------------------- *)

\* start_epoch and epochs are drawn from 0..MaxEpochs
MaxEpochs == 2
\* len(train_dataloader) is drawn from 0..MaxTrainBatches in Spec
MaxTrainBatches == 2
\* len(valid_dataloader) is drawn from 0..MaxValidBatches
MaxValidBatches == 2
\* a validation batch's MSE is 0 or 10^-k, k in 0..MaxExp
MaxExp == 1
\* in SpecLog len(train_dataloader) is within one of a multiple of LogEvery,
\* up to MaxHundreds * LogEvery + 1
MaxHundreds == 2

(* ------------------------ program constants ---------------------------- *)

\* train(): "every one hundred iterations"
LogEvery == 100

\* model.features, model.map, model.reconstruction
ParamNames == {"features", "map", "reconstruction"}

\* version of parameters stored by an earlier run
OldVersion == 0 - 1

(* --------------------- extended rational numbers ----------------------- *)

Num(n) == [inf |-> FALSE, num |-> n, den |-> 1]
Inf == [inf |-> TRUE, num |-> 1, den |-> 1]
Zero == Num(0)

\* a > b on floats (no NaN)
Gt(a, b) ==
    IF a.inf THEN ~b.inf
    ELSE ~b.inf /\ a.num * b.den > b.num * a.den

Eq(a, b) == ~Gt(a, b) /\ ~Gt(b, a)

Add(a, b) ==
    IF a.inf \/ b.inf THEN Inf
    ELSE [inf |-> FALSE, num |-> a.num * b.den + b.num * a.den, den |-> a.den * b.den]

Times(k, a) == IF a.inf THEN Inf ELSE [a EXCEPT !.num = k * a.num]

\* a / n for an integer n > 0
DivBy(a, n) == IF a.inf THEN Inf ELSE [a EXCEPT !.den = a.den * n]

(* ------------------------- validate(): PSNR ---------------------------- *)

RECURSIVE Pow10(_)
Pow10(k) == IF k = 0 THEN 1 ELSE 10 * Pow10(k - 1)

\* the values criterion(sr, hr) takes in the model: 0 and 10^-k
MseValues ==
    {[num |-> 0, den |-> 1]} \cup {[num |-> 1, den |-> Pow10(k)] : k \in 0..MaxExp}

\* faulty variant: the reciprocal guarded by a small epsilon, 1 / (mse + eps)
RecipGuarded(mse) ==
    IF mse.num = 0 THEN Num(Pow10(MaxExp + 1))
    ELSE [inf |-> FALSE, num |-> mse.den, den |-> mse.num]

\* 1 / criterion(sr, hr): a float tensor division, +inf at 0
Recip(mse) == IF mse.num = 0 THEN Inf ELSE [inf |-> FALSE, num |-> mse.den, den |-> mse.num]

RECURSIVE Log10Int(_)
Log10Int(n) == IF n < 10 THEN 0 ELSE 1 + Log10Int(n \div 10)

\* torch.log10 on +inf and on the powers of ten 1/mse takes here
Log10(x) == IF x.inf THEN Inf ELSE Num(Log10Int(x.num \div x.den))

\* psnr = 10 * torch.log10(1 / criterion(sr, hr)).item()
Psnr(mse) == Times(10, Log10(Recip(mse)))

(* --------------------------- train(): logging -------------------------- *)

\* faulty variant: the cadence tested on the 0-based index
LogDueZeroBased(index, batches) == index % LogEvery = 0 \/ (index + 1) = batches

\* if (index + 1) % 100 == 0 or (index + 1) == batches
LogDue(index, batches) == (index + 1) % LogEvery = 0 \/ (index + 1) = batches

\* faulty variant: the step counted within the epoch only
ItersWithinEpoch(index, epoch, batches) == index + 1

\* iters = index + epoch * batches + 1
Iters(index, epoch, batches) == index + epoch * batches + 1

\* faulty variant: the loop stops one batch early
HasNextBatchShort(index, batches) == index < batches - 1

\* for index, (lr, hr) in enumerate(train_dataloader)
HasNextBatch(index, batches) == index < batches

\* faulty variant: train() without model.train()
TrainModeKept(training) == training

\* model.train() / model.eval(): the value of model.training afterwards
TrainMode(training) == TRUE
EvalMode(training) == FALSE

\* scaler.step(optimizer): every parameter group is updated in place
OptimizerStep(params, id) == [n \in DOMAIN params |-> id]

\* faulty variant: the validation pass clamps the parameters in place
EvalForwardClamps(params) == [n \in DOMAIN params |-> 0 - 2]

\* validate(): sr = model(lr).clamp_(0.0, 1.0) under torch.no_grad(): the
\* parameters after the forward pass (clamp_ acts on the output)
EvalForward(params) == params

(* --------------------------- main(): checkpoints ----------------------- *)

Path(dir, file, n) == [dir |-> dir, file |-> file, n |-> n]

\* os.path.join(samples_dir, f"epoch_{epoch + 1}.pth")
RollingPath(epoch) == Path("samples", "epoch", epoch + 1)
\* faulty variant: a best file per epoch
BestPathPerEpoch(epoch) == [dir |-> "results", file |-> "best", n |-> epoch + 1]

\* os.path.join(results_dir, "best.pth")
BestPath(epoch) == Path("results", "best", 0)
\* os.path.join(results_dir, "last.pth")
LastPath == Path("results", "last", 0)
\* config.resume_weight as a path
WeightPath(resume_weight) == Path("", resume_weight, 0)

\* torch.save(obj, path): creates or overwrites the file
Save(files, path, data) ==
    [p \in DOMAIN files \cup {path} |-> IF p = path THEN data ELSE files[p]]

\* model.state_dict()
StateDict(params) == params

\* faulty variant: a tie counts as a new best
IsBestOrTie(psnr, best) == ~Gt(best, psnr)

\* is_best = psnr > best_psnr
IsBest(psnr, best) == Gt(psnr, best)

\* max(psnr, best_psnr): Python's max keeps the first of equal arguments
PyMax(a, b) == IF Gt(b, a) THEN b ELSE a

\* faulty variant: the range includes config.epochs
InRangeInclusive(epoch, epochs) == epoch <= epochs

\* range(config.start_epoch, config.epochs)
InRange(epoch, epochs) == epoch < epochs

(* ------------------------- resume_checkpoint() ------------------------- *)

\* if config.resume: if config.resume_weight != "":
ResumeRequested(cfg) == cfg.resume /\ cfg.resume_weight # ""

\* load_state_dict: the parameters after copying every entry whose name matches
Loaded(params, ckpt) ==
    [n \in DOMAIN params |-> IF n \in DOMAIN ckpt THEN ckpt[n] ELSE params[n]]

\* faulty variant: strict is not passed on
KeysErrorIgnored(params, ckpt, strict) == FALSE

\* load_state_dict(strict=...): missing or unexpected keys raise when strict
KeysError(params, ckpt, strict) == strict /\ DOMAIN params # DOMAIN ckpt

(* ------------------------------- state --------------------------------- *)

VARIABLES
    config,         \* the configuration module: start_epoch, epochs, resume, resume_weight, strict
    train_batches,  \* len(train_dataloader)
    valid_batches,  \* len(valid_dataloader)
    files,          \* the file system: path -> stored state dict
    pc,             \* position in main()
    error,          \* the exception that ended the run, "" if none
    epoch,          \* main(): the loop variable
    index,          \* train() / validate(): the loop variable
    params,         \* the model's parameters: name -> version
    training,       \* model.training
    total_psnr,     \* validate(): total_psnr
    psnr,           \* main(): psnr, the value validate() returned
    best_psnr,      \* main(): best_psnr
    is_best,        \* main(): is_best
    writer,         \* the SummaryWriter's records, in order: [tag, step]
    stdout,         \* the training lines printed, in order: [epoch, iter]
    saves,          \* history: the torch.save calls of this run, in order
    validated,      \* history: epoch -> [psnr, params] when validate() returned
    decided,        \* history: epoch -> [is_best, best_psnr] as computed for it
    zeroEpochs,     \* history: the epochs in which a validation batch had MSE 0
    steps,          \* history: epoch -> number of training steps completed
    stepModes       \* history: <<"train"|"valid", model.training>> of every step run

vars ==
    <<config, train_batches, valid_batches, files, pc, error, epoch, index, params,
      training, total_psnr, psnr, best_psnr, is_best, writer, stdout, saves,
      validated, decided, zeroEpochs, steps, stepModes>>

Empty == [x \in {} |-> 0]

\* the state dicts an earlier run may have left on disk
CkptNames == {ParamNames, ParamNames \ {"reconstruction"}, ParamNames \cup {"bn"}}
OldCkpts == {[n \in names |-> OldVersion] : names \in CkptNames}

\* config.resume_weight is "" or this file
WeightsFile == "weights.pth"

Configs ==
    [start_epoch : 0..MaxEpochs, epochs : 0..MaxEpochs, resume : BOOLEAN,
     resume_weight : {"", WeightsFile}, strict : BOOLEAN]

\* the files present when main() starts: a best.pth of an earlier run of the
\* same experiment, and the file config.resume_weight names, each present or not
InitialFiles ==
    LET best == {Empty} \cup {BestPath(0) :> [n \in ParamNames |-> OldVersion]}
        weights == {Empty} \cup {WeightPath(WeightsFile) :> c : c \in OldCkpts}
    IN  {b @@ w : b \in best, w \in weights}

\* build_model(): random initial parameters, a new module is in training mode
BuildModel == [n \in ParamNames |-> 0]

\* the state a run starts from, whatever the configuration

InitRest ==
    /\ pc = "resume"
    /\ error = ""
    /\ epoch = config.start_epoch
    /\ index = 0
    /\ params = BuildModel
    /\ training = TRUE
    /\ total_psnr = Zero
    /\ psnr = Zero
    /\ best_psnr = Zero
    /\ is_best = FALSE
    /\ writer = <<>>
    /\ stdout = <<>>
    /\ saves = <<>>
    /\ validated = Empty
    /\ decided = Empty
    /\ zeroEpochs = {}
    /\ steps = Empty
    /\ stepModes = {}

Init ==
    /\ config \in Configs
    /\ train_batches \in 0..MaxTrainBatches
    /\ valid_batches \in 0..MaxValidBatches
    /\ files \in InitialFiles
    /\ InitRest

(* ------------------------------ actions --------------------------------- *)

Abort(exc) == pc' = "aborted" /\ error' = exc

\* main() line 161 and resume_checkpoint(); then best_psnr = 0.0
ResumeCheckpoint ==
    /\ pc = "resume"
    /\ IF ~ResumeRequested(config)
       THEN /\ pc' = "for_epoch"
            /\ best_psnr' = Zero
            /\ UNCHANGED <<error, params>>
       ELSE IF WeightPath(config.resume_weight) \notin DOMAIN files
       THEN /\ Abort("FileNotFoundError")
            /\ UNCHANGED <<params, best_psnr>>
       ELSE LET ckpt == files[WeightPath(config.resume_weight)]
            IN  /\ params' = Loaded(params, ckpt)
                /\ IF KeysError(params, ckpt, config.strict)
                   THEN Abort("RuntimeError") /\ UNCHANGED best_psnr
                   ELSE pc' = "for_epoch" /\ best_psnr' = Zero /\ UNCHANGED error
    /\ UNCHANGED <<config, train_batches, valid_batches, files, epoch, index, training,
                   total_psnr, psnr, is_best, writer, stdout, saves, validated,
                   decided, zeroEpochs, steps, stepModes>>

\* for epoch in range(config.start_epoch, config.epochs)
ForEpoch ==
    /\ pc = "for_epoch"
    /\ pc' = IF InRange(epoch, config.epochs) THEN "train" ELSE "finalize"
    /\ UNCHANGED <<config, train_batches, valid_batches, files, error, epoch, index,
                   params, training, total_psnr, psnr, best_psnr, is_best, writer,
                   stdout, saves, validated, decided, zeroEpochs, steps, stepModes>>

\* train(): batches = len(train_dataloader); model.train()
TrainBegin ==
    /\ pc = "train"
    /\ training' = TrainMode(training)
    /\ index' = 0
    /\ steps' = steps @@ (epoch :> 0)
    /\ pc' = "train_loop"
    /\ UNCHANGED <<config, train_batches, valid_batches, files, error, epoch, params,
                   total_psnr, psnr, best_psnr, is_best, writer, stdout, saves,
                   validated, decided, zeroEpochs, stepModes>>

\* train(): one iteration of the loop over train_dataloader
TrainStep ==
    /\ pc = "train_loop"
    /\ HasNextBatch(index, train_batches)
    /\ params' = OptimizerStep(params, epoch * train_batches + index + 1)
    /\ stepModes' = stepModes \cup {<<"train", training>>}
    /\ steps' = [steps EXCEPT ![epoch] = @ + 1]
    /\ IF LogDue(index, train_batches)
       THEN /\ writer' = Append(writer, [tag |-> "Train/MSE_Loss",
                                         step |-> Iters(index, epoch, train_batches)])
            /\ stdout' = Append(stdout, [epoch |-> epoch + 1, iter |-> index + 1])
       ELSE UNCHANGED <<writer, stdout>>
    /\ index' = index + 1
    /\ UNCHANGED <<config, train_batches, valid_batches, files, pc, error, epoch,
                   training, total_psnr, psnr, best_psnr, is_best, saves, validated,
                   decided, zeroEpochs>>

\* train(): the loop over train_dataloader is exhausted, train() returns
TrainReturn ==
    /\ pc = "train_loop"
    /\ ~HasNextBatch(index, train_batches)
    /\ pc' = "validate"
    /\ UNCHANGED <<config, train_batches, valid_batches, files, error, epoch, index,
                   params, training, total_psnr, psnr, best_psnr, is_best, writer,
                   stdout, saves, validated, decided, zeroEpochs, steps, stepModes>>

\* validate(): batches = len(valid_dataloader); model.eval(); total_psnr = 0.0
ValidateBegin ==
    /\ pc = "validate"
    /\ training' = EvalMode(training)
    /\ total_psnr' = Zero
    /\ index' = 0
    /\ pc' = "validate_loop"
    /\ UNCHANGED <<config, train_batches, valid_batches, files, error, epoch, params,
                   psnr, best_psnr, is_best, writer, stdout, saves, validated,
                   decided, zeroEpochs, steps, stepModes>>

\* validate(): one iteration of the loop over valid_dataloader
ValidateBatch ==
    /\ pc = "validate_loop"
    /\ HasNextBatch(index, valid_batches)
    /\ \E mse \in MseValues :
          /\ total_psnr' = Add(total_psnr, Psnr(mse))
          /\ zeroEpochs' = IF mse.num = 0 THEN zeroEpochs \cup {epoch} ELSE zeroEpochs
    /\ params' = EvalForward(params)
    /\ stepModes' = stepModes \cup {<<"valid", training>>}
    /\ index' = index + 1
    /\ UNCHANGED <<config, train_batches, valid_batches, files, pc, error, epoch,
                   training, psnr, best_psnr, is_best, writer, stdout, saves,
                   validated, decided, steps>>

\* validate(): avg_psnr = total_psnr / batches (a Python float division, which
\* raises ZeroDivisionError for batches = 0); add_scalar; return avg_psnr
ValidateReturn ==
    /\ pc = "validate_loop"
    /\ ~HasNextBatch(index, valid_batches)
    /\ IF valid_batches = 0
       THEN /\ Abort("ZeroDivisionError")
            /\ UNCHANGED <<psnr, writer, validated>>
       ELSE /\ psnr' = DivBy(total_psnr, valid_batches)
            /\ writer' = Append(writer, [tag |-> "Valid/PSNR", step |-> epoch + 1])
            /\ validated' = validated @@ (epoch :> [psnr |-> psnr', params |-> params])
            /\ pc' = "decide"
            /\ UNCHANGED error
    /\ UNCHANGED <<config, train_batches, valid_batches, files, epoch, index, params,
                   training, total_psnr, best_psnr, is_best, stdout, saves, decided,
                   zeroEpochs, steps, stepModes>>

\* main(): is_best = psnr > best_psnr; best_psnr = max(psnr, best_psnr)
Decide ==
    /\ pc = "decide"
    /\ is_best' = IsBest(psnr, best_psnr)
    /\ best_psnr' = PyMax(psnr, best_psnr)
    /\ decided' = decided @@ (epoch :> [is_best |-> is_best', best_psnr |-> best_psnr'])
    /\ pc' = "save_rolling"
    /\ UNCHANGED <<config, train_batches, valid_batches, files, error, epoch, index,
                   params, training, total_psnr, psnr, writer, stdout, saves,
                   validated, zeroEpochs, steps, stepModes>>

TorchSave(path, data) ==
    /\ files' = Save(files, path, data)
    /\ saves' = Append(saves, [path |-> path, data |-> data, epoch |-> epoch])

\* main(): torch.save(model.state_dict(), .../epoch_{epoch + 1}.pth)
SaveRolling ==
    /\ pc = "save_rolling"
    /\ TorchSave(RollingPath(epoch), StateDict(params))
    /\ pc' = "save_best"
    /\ UNCHANGED <<config, train_batches, valid_batches, error, epoch, index, params,
                   training, total_psnr, psnr, best_psnr, is_best, writer, stdout,
                   validated, decided, zeroEpochs, steps, stepModes>>

\* main(): if is_best: torch.save(model.state_dict(), .../best.pth); next epoch
SaveBest ==
    /\ pc = "save_best"
    /\ IF is_best
       THEN TorchSave(BestPath(epoch), StateDict(params))
       ELSE UNCHANGED <<files, saves>>
    /\ epoch' = epoch + 1
    /\ pc' = "for_epoch"
    /\ UNCHANGED <<config, train_batches, valid_batches, error, index, params,
                   training, total_psnr, psnr, best_psnr, is_best, writer, stdout,
                   validated, decided, zeroEpochs, steps, stepModes>>

\* main(): torch.save(model.state_dict(), .../last.pth)
Finalize ==
    /\ pc = "finalize"
    /\ TorchSave(LastPath, StateDict(params))
    /\ pc' = "done"
    /\ UNCHANGED <<config, train_batches, valid_batches, error, epoch, index, params,
                   training, total_psnr, psnr, best_psnr, is_best, writer, stdout,
                   validated, decided, zeroEpochs, steps, stepModes>>

Next ==
    \/ ResumeCheckpoint
    \/ ForEpoch
    \/ TrainBegin
    \/ TrainStep
    \/ TrainReturn
    \/ ValidateBegin
    \/ ValidateBatch
    \/ ValidateReturn
    \/ Decide
    \/ SaveRolling
    \/ SaveBest
    \/ Finalize

Spec == Init /\ [][Next]_vars

\* the lengths of train_dataloader at which the logging cadence shows: within
\* one of a multiple of LogEvery
LogBatchCounts ==
    {n \in 0..(MaxHundreds * LogEvery + 1) :
        n % LogEvery \in {0, 1, LogEvery - 1}}

\* runs without resume over a long training sequence
InitLog ==
    /\ config \in {c \in Configs : ~c.resume /\ ~c.strict /\ c.resume_weight = ""}
    /\ train_batches \in LogBatchCounts
    /\ valid_batches = 1
    /\ files = Empty
    /\ InitRest

SpecLog == InitLog /\ [][Next]_vars

(* ------------------------- derived notions ------------------------------ *)

Max0(n) == IF n > 0 THEN n ELSE 0

IsRolling(path) == path.dir = "samples" /\ path.file = "epoch"
IsBestFile(path) == path.dir = "results" /\ path.file = "best"
IsLast(path) == path.dir = "results" /\ path.file = "last" /\ path.n = 0

RollingSaves == {k \in DOMAIN saves : IsRolling(saves[k].path)}
BestSaves == {k \in DOMAIN saves : IsBestFile(saves[k].path)}
LastSaves == {k \in DOMAIN saves : IsLast(saves[k].path)}

\* best.pth was written by the checkpoint decision of epoch e
BestWrittenIn(e) == \E k \in BestSaves : saves[k].epoch = e

\* the epochs whose checkpoint decision has finished
Finished == {e \in DOMAIN decided : e < epoch}

\* the epochs of this run before e that were validated
Prior(e) == {q \in DOMAIN validated : q < e}

(* ------------------------------- C1 ------------------------------------- *)

\* what a completed run has done, for n epochs
CompletedRun(n) ==
    /\ Cardinality(DOMAIN steps) = n
    /\ Cardinality(DOMAIN validated) = n
    /\ \A e \in DOMAIN steps : steps[e] = train_batches
    /\ Cardinality(RollingSaves) = n
    /\ Cardinality({saves[k].path : k \in RollingSaves}) = n
    /\ Cardinality(LastSaves) = 1
    /\ saves # <<>> /\ IsLast(saves[Len(saves)].path)

\* C1 as stated: a run that does not fail executes exactly epochs - start_epoch
\* epochs, writes that many distinct rolling files, and writes last.pth exactly
\* once, as the final write.
C1_Original == pc = "done" => CompletedRun(config.epochs - config.start_epoch)

\* C1 amended: a run that does not fail executes exactly
\* max(0, epochs - start_epoch) epochs (one train pass and one validate pass
\* each, the epochs start_epoch .. epochs - 1), writes that many distinct
\* rolling files epoch_<N>.pth, and writes last.pth exactly once, as the final
\* write of the run, whatever the PSNR values were; last.pth is written at no
\* earlier point.
C1_EpochsAndFiles ==
    /\ pc = "done" =>
          /\ CompletedRun(Max0(config.epochs - config.start_epoch))
          /\ DOMAIN steps = config.start_epoch .. (config.epochs - 1)
          /\ {saves[k].path.n : k \in RollingSaves}
                = (config.start_epoch + 1) .. config.epochs
    /\ pc # "done" => LastSaves = {}

C1_Witness ==
    /\ pc = "done"
    /\ config.epochs - config.start_epoch = 2
    /\ Cardinality(RollingSaves) = 2
    /\ BestSaves = {}

(* ------------------------------- C2 ------------------------------------- *)

\* the running best PSNR never decreases from one epoch to the next
BestMonotone ==
    \A e1, e2 \in DOMAIN decided :
        e1 < e2 => ~Gt(decided[e1].best_psnr, decided[e2].best_psnr)

\* C2 as stated: in every epoch best.pth is written iff the epoch's average
\* PSNR is strictly greater than that of every prior epoch of the run, and
\* the running best is non-decreasing.
C2_Original ==
    /\ \A e \in Finished :
          BestWrittenIn(e) <=>
              \A q \in Prior(e) : Gt(validated[e].psnr, validated[q].psnr)
    /\ BestMonotone

\* C2 amended: in every epoch best.pth is written iff the epoch's average PSNR
\* is strictly greater than 0.0, the initial running best, and strictly
\* greater than that of every prior epoch of the run (a tie does not update
\* it); the running best is non-decreasing and is the maximum of 0.0 and the
\* averages so far.
C2_BestIffStrictlyGreater ==
    /\ \A e \in Finished :
          BestWrittenIn(e) <=>
              /\ Gt(validated[e].psnr, Zero)
              /\ \A q \in Prior(e) : Gt(validated[e].psnr, validated[q].psnr)
    /\ BestMonotone
    /\ \A e \in DOMAIN decided :
          /\ ~Gt(Zero, decided[e].best_psnr)
          /\ \A q \in Prior(e) \cup {e} : ~Gt(validated[q].psnr, decided[e].best_psnr)
          /\ \/ Eq(decided[e].best_psnr, Zero)
             \/ \E q \in Prior(e) \cup {e} : Eq(decided[e].best_psnr, validated[q].psnr)

\* a later epoch ties the best of an earlier one and best.pth is not rewritten
C2_Witness ==
    \E e1, e2 \in Finished :
        /\ e1 < e2
        /\ BestWrittenIn(e1)
        /\ ~BestWrittenIn(e2)
        /\ Eq(validated[e1].psnr, validated[e2].psnr)

(* ------------------------------- C3 ------------------------------------- *)

AtMostOneBestFile == Cardinality({p \in DOMAIN files : p.file = "best"}) <= 1

\* e has the highest average PSNR of the epochs validated so far
Highest(e) == \A q \in DOMAIN validated : ~Gt(validated[q].psnr, validated[e].psnr)

\* C3 as stated: at every point of a run at most one best file exists, and
\* whenever it exists it holds the model state of the epoch with the highest
\* average PSNR seen so far in this run.
C3_Original ==
    /\ AtMostOneBestFile
    /\ Path("results", "best", 0) \in DOMAIN files =>
          \E e \in DOMAIN validated :
              /\ Highest(e)
              /\ files[Path("results", "best", 0)] = validated[e].params

\* the earliest epoch with the highest average PSNR so far
FirstHighest ==
    CHOOSE e \in DOMAIN validated :
        Highest(e) /\ \A q \in Prior(e) : Gt(validated[e].psnr, validated[q].psnr)

\* C3 amended: at every point of a run at most one best file exists.  Outside
\* the checkpoint decision of an epoch: once an epoch of this run has had an
\* average PSNR above 0.0, best.pth holds the model state of the earliest
\* epoch with the highest average PSNR seen so far in this run; until then
\* this run has not written best.pth, and a best.pth an earlier run left
\* keeps the earlier run's content.
C3_BestReflectsHighest ==
    /\ AtMostOneBestFile
    /\ pc \notin {"decide", "save_rolling", "save_best"} =>
          IF \E e \in DOMAIN validated : Gt(validated[e].psnr, Zero)
          THEN /\ Path("results", "best", 0) \in DOMAIN files
               /\ files[Path("results", "best", 0)] = validated[FirstHighest].params
          ELSE /\ BestSaves = {}
               /\ Path("results", "best", 0) \in DOMAIN files =>
                     files[Path("results", "best", 0)] = [n \in ParamNames |-> OldVersion]

\* the second epoch beat the first, and best.pth holds the second's state
C3_Witness ==
    /\ pc = "done"
    /\ Cardinality(BestSaves) = 2
    /\ train_batches > 0
    /\ files[Path("results", "best", 0)] = validated[config.epochs - 1].params
    /\ files[Path("results", "best", 0)] # validated[config.start_epoch].params

(* ------------------------------- C4 ------------------------------------- *)

RollingWrittenIn(e) == \E k \in RollingSaves : saves[k].epoch = e

\* C4 as stated: an epoch in which a validation batch has MSE exactly zero
\* returns no average PSNR and gets no checkpoint decision.
C4_Original ==
    \A e \in zeroEpochs :
        /\ e \notin DOMAIN validated
        /\ e \notin DOMAIN decided
        /\ ~RollingWrittenIn(e)

\* C4 amended: the PSNR computation is unguarded and an MSE of exactly zero
\* makes the batch's PSNR +inf, not a fault: validate() returns an average of
\* +inf for that epoch (and only for such an epoch), the run does not abort,
\* and the epoch's checkpoint decision is made as for any other value: the
\* rolling file is written, and best.pth is written iff no earlier epoch of
\* the run had an infinite average.
C4_ZeroMseGivesInfinity ==
    /\ \A e \in DOMAIN validated : validated[e].psnr.inf <=> e \in zeroEpochs
    /\ error = "ZeroDivisionError" => valid_batches = 0 /\ zeroEpochs = {}
    /\ \A e \in zeroEpochs \cap Finished :
          /\ RollingWrittenIn(e)
          /\ BestWrittenIn(e) <=> \A q \in Prior(e) : ~validated[q].psnr.inf

\* an epoch with a zero-MSE batch has had its checkpoints written and the
\* run has gone on to its end
C4_Witness ==
    /\ pc = "done"
    /\ \E e \in zeroEpochs : RollingWrittenIn(e) /\ BestWrittenIn(e)

(* ------------------------------- C5 ------------------------------------- *)

WeightsMissing == WeightPath(config.resume_weight) \notin DOMAIN files

NamesDiffer == DOMAIN files[WeightPath(config.resume_weight)] # ParamNames

\* C5: when resume is requested with a path and the file is missing, or the
\* load is strict and the parameter names differ, the run aborts in
\* resume_checkpoint(): no training step runs and nothing is saved.  With
\* strict false a name mismatch does not abort: the entries with matching
\* names are loaded and the run enters the epoch loop.
C5_ResumeErrors ==
    /\ (/\ config.resume /\ config.resume_weight # ""
        /\ pc # "resume"
        /\ \/ WeightsMissing
           \/ config.strict /\ NamesDiffer)
       => /\ pc = "aborted"
          /\ error \in {"FileNotFoundError", "RuntimeError"}
          /\ steps = Empty /\ stepModes = {}
          /\ saves = <<>>
          /\ writer = <<>>
    /\ (/\ config.resume /\ config.resume_weight # ""
        /\ pc # "resume"
        /\ ~WeightsMissing /\ ~config.strict /\ NamesDiffer)
       => /\ error \notin {"FileNotFoundError", "RuntimeError"}
          /\ steps = Empty =>
                \A n \in ParamNames :
                    params[n] = IF n \in DOMAIN files[WeightPath(config.resume_weight)]
                                THEN OldVersion ELSE 0
    /\ error \in {"FileNotFoundError", "RuntimeError"} =>
          /\ config.resume /\ config.resume_weight # ""
          /\ WeightsMissing \/ (config.strict /\ NamesDiffer)

\* a strict load of a checkpoint with other names has aborted the run
C5_Witness ==
    /\ pc = "aborted"
    /\ error = "RuntimeError"
    /\ config.strict
    /\ config.epochs > config.start_epoch
    /\ saves = <<>>

(* ------------------------------- C6 ------------------------------------- *)

TrainRecords == {k \in DOMAIN writer : writer[k].tag = "Train/MSE_Loss"}
ValidRecords == {k \in DOMAIN writer : writer[k].tag = "Valid/PSNR"}

\* the number of training log lines for iteration i (1-based) of epoch e
LinesFor(e, i) ==
    Cardinality({k \in DOMAIN stdout : stdout[k].epoch = e + 1 /\ stdout[k].iter = i})

\* C6: for every iteration i (1-based) that has run, exactly one training
\* record was emitted if i is a multiple of 100 or i is the number of batches,
\* and none otherwise; every record belongs to an iteration that has run, and
\* every printed line has its Train/MSE_Loss scalar.
C6_LoggingCadence ==
    /\ \A e \in DOMAIN steps :
          \A i \in 1..steps[e] :
              LinesFor(e, i) = IF i % 100 = 0 \/ i = train_batches THEN 1 ELSE 0
    /\ \A k \in DOMAIN stdout :
          /\ stdout[k].epoch - 1 \in DOMAIN steps
          /\ stdout[k].iter \in 1..steps[stdout[k].epoch - 1]
    /\ Cardinality(TrainRecords) = Len(stdout)

\* an epoch of 200 batches has ended: the final iteration is a multiple of
\* 100 too, and two records were emitted
C6_Witness ==
    /\ train_batches = 200
    /\ pc = "validate"
    /\ epoch = config.start_epoch
    /\ Len(stdout) = 2
    /\ stdout[2].iter = 200

(* ------------------------------- C7 ------------------------------------- *)

\* C7: the steps recorded under one scalar name are strictly increasing in
\* the order they were recorded.
C7_StepsIncrease ==
    \A i, j \in DOMAIN writer :
        (i < j /\ writer[i].tag = writer[j].tag) => writer[i].step < writer[j].step

\* two epochs of 101 batches have been logged: two Train/MSE_Loss records in
\* each, and one Valid/PSNR record for each
C7_Witness ==
    /\ train_batches = 101
    /\ Cardinality(TrainRecords) = 4
    /\ Cardinality(ValidRecords) = 2

(* ------------------------------- C8 ------------------------------------- *)

\* validate() has been entered for epoch e
ValidationStarted(e) ==
    e \in DOMAIN validated \/ (e = epoch /\ pc \in {"validate_loop", "decide"})

\* C8: the training steps of an epoch run in the order of the batches (the
\* step about to run is the one after those completed) and have all completed
\* when the epoch's validation starts; an epoch's checkpoint writes come after
\* its validation has returned, the rolling file first and best.pth directly
\* after it; train() is entered for an epoch only when the checkpoint decision
\* of the epoch before it has finished.
C8_Ordering ==
    /\ pc = "train_loop" => steps[epoch] = index
    /\ \A e \in DOMAIN steps :
          /\ steps[e] <= train_batches
          /\ ValidationStarted(e) => steps[e] = train_batches
    /\ \A e \in DOMAIN validated : e \in DOMAIN steps
    /\ \A k \in RollingSaves \cup BestSaves :
          /\ saves[k].epoch \in DOMAIN validated
          /\ saves[k].epoch \in DOMAIN decided
    /\ \A k \in BestSaves :
          /\ k - 1 \in RollingSaves
          /\ saves[k - 1].epoch = saves[k].epoch
    /\ \A e \in DOMAIN steps :
          e > config.start_epoch =>
              /\ e - 1 \in DOMAIN decided
              /\ RollingWrittenIn(e - 1)
              /\ decided[e - 1].is_best => BestWrittenIn(e - 1)

\* the second epoch is training after the first one's validation and both
\* of its checkpoint writes
C8_Witness ==
    /\ pc = "train_loop"
    /\ epoch = config.start_epoch + 1
    /\ train_batches = 2
    /\ steps[epoch] = 1
    /\ Len(saves) = 2

(* ------------------------------- C9 ------------------------------------- *)

\* every file written in the checkpoint decision of an epoch holds the
\* parameters validate() saw, and last.pth holds what the final epoch's
\* rolling file holds
SnapshotsAgree ==
    /\ \A k \in RollingSaves \cup BestSaves :
          saves[k].data = validated[saves[k].epoch].params
    /\ \A k \in LastSaves :
          \A r \in RollingSaves :
              saves[r].epoch = config.epochs - 1 => saves[k].data = saves[r].data

\* C9 as stated: the parameters change only in a training step.
C9_Original == [][params' # params => pc = "train_loop"]_vars

\* C9 amended: after the load of resume_checkpoint(), the parameters change
\* only in a training step: validate() and every checkpoint write leave them
\* unchanged, so the rolling file and best.pth of an epoch hold the same
\* parameters, those validate() saw, and last.pth holds the same parameters
\* as the final epoch's rolling file.
C9_ParamsFrame ==
    /\ [][params' # params => pc \in {"resume", "train_loop"}]_vars
    /\ []SnapshotsAgree

\* a run of two epochs has written last.pth, and the first epoch wrote a
\* rolling file and best.pth
C9_Witness ==
    /\ pc = "done"
    /\ train_batches > 0
    /\ Cardinality(RollingSaves) = 2
    /\ BestWrittenIn(config.start_epoch)
    /\ params # BuildModel

(* ------------------------------- C10 ------------------------------------ *)

\* C10: every training step has run in training mode and every validation
\* batch in evaluation mode, and the mode changes only in the switches at
\* the start of train() and of validate().
C10_Modes ==
    /\ [](stepModes \subseteq {<<"train", TRUE>>, <<"valid", FALSE>>})
    /\ [][training' # training => pc \in {"train", "validate"}]_vars

\* a training step of the second epoch has run, after the first epoch's
\* validation put the model in evaluation mode
C10_Witness ==
    /\ pc = "train_loop"
    /\ epoch > config.start_epoch
    /\ steps[epoch] > 0
    /\ training
    /\ <<"valid", FALSE>> \in stepModes

====
